---- MODULE Spec2Model ----
(***************************************************************************)
(* Model of the design-pattern examples of this repository.                *)
(*                                                                         *)
(* Strategy example (src/behavioral_patterns/strategy.ts): the Caesar and  *)
(* Vigenere cipher strategies.  A text is a sequence of UTF-16 code units  *)
(* (here: ASCII codes), a strategy instance is a record                    *)
(*   [kind, shift, key]  with kind "caesar" or "vigenere".                 *)
(* The value a call returns is a record [threw, text]: threw is TRUE when  *)
(* the call raised a TypeError instead of returning a string.              *)
(***************************************************************************)
EXTENDS Integers, Sequences, FiniteSets, TLC

VARIABLES
    strategy,   \* the cipher strategy instance under test
    plaintext,  \* the text the caller holds
    call,       \* the last method called on it: "none", "encrypt", "decrypt"
    input,      \* the text passed to the last call
    output,     \* what the last call returned: [threw, text]
    chained     \* TRUE when the last call was decrypt(encrypt(plaintext))

cipherVars == <<strategy, plaintext, call, input, output, chained>>

\* TextCipher, the context of the Strategy example
VARIABLES
    strategyObjects,  \* the strategy objects: reference -> strategy instance
    textCipher,       \* the strategy field of each TextCipher: a reference
    lastSet,          \* per TextCipher, the reference last given to its
                      \* constructor or to setStrategy
    swapped,          \* per TextCipher, TRUE once setStrategy was called
    ctxOp,            \* the last operation on a TextCipher: [ctx, op, ref],
                      \* ref the reference given (setStrategy) or the one
                      \* last set on ctx when encrypt or decrypt was called
    ctxResult         \* the text the last encrypt or decrypt on a TextCipher
                      \* was given and what it returned: [input, output]

contextVars ==
    <<strategyObjects, textCipher, lastSet, swapped, ctxOp, ctxResult>>

\* the second part of the example usage of the Strategy example
VARIABLES
    swapPc,             \* the next statement of the script
    swapText,           \* the text given to the first encrypt
    encrypted,          \* const encrypted
    decrypted,          \* let decrypted
    vigenereDecrypted   \* const vigenereDecrypted

swapVars == <<swapPc, swapText, encrypted, decrypted, vigenereDecrypted>>

\* Observer example: Newsletter, Author, Reader
VARIABLES
    listeners,      \* Newsletter.listeners: the array of subscribed readers
    articleCount,   \* Author.articleCount
    delivered,      \* the update calls made by the last notify, in order
    received,       \* per reader, the articles its update was called with
    events          \* the calls made so far: [op, listener]

observerVars == <<listeners, articleCount, delivered, received, events>>

\* Template Method example: Notifier, EmailNotifier, SMSNotifier
VARIABLES
    notifier,       \* the class of the instance notify runs on
    notifyUser,     \* the user argument of notify
    notifyAddress,  \* the address argument of notify
    notifyPc,       \* the statement of notify to run next
    content,        \* const content
    notifyCalls,    \* the prepare and send calls this notify has made
    notifyResult,   \* what notify returned or threw
    notifyCount     \* the number of notify calls started

notifierVars ==
    <<notifier, notifyUser, notifyAddress, notifyPc, content, notifyCalls,
      notifyResult, notifyCount>>

\* Builder example: MyPizzeria and the Pizza it bakes
VARIABLES
    builder,        \* the MyPizzeria instance: [pizza, pizzaSize]
    bakedPizza,     \* the Pizza the last bake returned
    builderCalls    \* the calls made on the builder so far: [op, arg]

builderVars == <<builder, bakedPizza, builderCalls>>

\* Composite example: MyFile and Folder
VARIABLES
    childrenComponents, \* per Folder, its array of children
    added,              \* the addComponent calls made so far:
                        \* [folder, component]
    sizeCall            \* the last getSize call: [component, threw, size]

compositeVars == <<childrenComponents, added, sizeCall>>

vars ==
    <<cipherVars, contextVars, swapVars, observerVars, notifierVars,
      builderVars, compositeVars>>

notCompositeVars ==
    <<cipherVars, contextVars, swapVars, observerVars, notifierVars,
      builderVars>>

notNotifierVars ==
    <<cipherVars, contextVars, swapVars, observerVars, builderVars,
      compositeVars>>
notBuilderVars ==
    <<cipherVars, contextVars, swapVars, observerVars, notifierVars,
      compositeVars>>

notCipherVars ==
    <<contextVars, swapVars, observerVars, notifierVars, builderVars,
      compositeVars>>
notContextVars ==
    <<cipherVars, swapVars, observerVars, notifierVars, builderVars,
      compositeVars>>
notSwapVars ==
    <<cipherVars, lastSet, swapped, ctxOp, ctxResult, observerVars,
      notifierVars, builderVars, compositeVars>>
notObserverVars ==
    <<cipherVars, contextVars, swapVars, notifierVars, builderVars,
      compositeVars>>

(***************************************************************************)
(* Bounds of the model.                                                    *)
(***************************************************************************)
MaxLen == 3         \* longest text enumerated over TextChars
MaxKeyLen == 2      \* longest Vigenere key enumerated over KeyChars
ShiftBound == 27    \* Caesar shifts range over -ShiftBound..ShiftBound

(***************************************************************************)
(* Characters and texts.                                                   *)
(***************************************************************************)
PrintableAscii == 32..126

\* 'a', 'z', 'Z', '1', ','
TextChars == {97, 122, 90, 49, 44}

\* 'K', 'e', 'z', '1', '~'
KeyChars == {75, 101, 122, 49, 126}

\* the texts and the key of the example usage
HelloWorld == <<72, 101, 108, 108, 111, 44, 32, 87, 111, 114, 108, 100, 33>>
KhoorZruog == <<75, 104, 111, 111, 114, 44, 32, 90, 114, 117, 111, 103, 33>>
RijvsUyvjn == <<82, 105, 106, 118, 115, 44, 32, 85, 121, 118, 106, 110, 33>>
KeyKEY == <<75, 69, 89>>
TextA1b == <<97, 49, 98>>
TextAbC == <<65, 98, 67>>
TextBcD == <<66, 99, 68>>

SeqsUpTo(S, n) == UNION {[1..m -> S] : m \in 0..n}

Texts ==
    SeqsUpTo(TextChars, MaxLen)
        \cup {<<c>> : c \in PrintableAscii}
        \cup {HelloWorld, KhoorZruog, RijvsUyvjn, TextA1b, TextAbC}

Keys == SeqsUpTo(KeyChars, MaxKeyLen) \cup {KeyKEY}

Shifts == (-ShiftBound)..ShiftBound

(***************************************************************************)
(* JavaScript primitives used by the ciphers.                              *)
(***************************************************************************)

\* a % n of JavaScript for integers a and n > 0: the remainder has the sign
\* of the dividend
JsRem(a, n) == IF a >= 0 THEN a % n ELSE 0 - ((0 - a) % n)

\* String.fromCharCode(n): the code unit ToUint16(n)
FromCharCode(n) == n % 65536

\* c.toLowerCase() of a one-character ASCII string
ToLowerCase(c) == IF c \in 65..90 THEN c + 32 ELSE c

\* the character class written /[A-z]/: every code from 'A' to 'z'
IsLetterAToz(c) == c \in 65..122

\* char.match(/[a-z]/i): without the u flag, the case-insensitive class
\* matches the ASCII letters only
IsLetter(c) == c \in 65..90 \/ c \in 97..122

\* const base = char.toLowerCase() === char ? 97 : 65
Base(c) == IF ToLowerCase(c) = c THEN 97 ELSE 65

Returned(t) == [threw |-> FALSE, text |-> t]
TypeError == [threw |-> TRUE, text |-> <<>>]

(***************************************************************************)
(* CaesarCipher                                                            *)
(***************************************************************************)
CaesarEncryptChar(shift, c) ==
    IF IsLetter(c)
    THEN FromCharCode(JsRem(c - Base(c) + shift, 26) + Base(c))
    ELSE c

\* decrypt without the + 26 that keeps the dividend non-negative
CaesarDecryptCharNoWrap(shift, c) ==
    IF IsLetter(c)
    THEN FromCharCode(JsRem(c - Base(c) - shift, 26) + Base(c))
    ELSE c

CaesarDecryptChar(shift, c) ==
    IF IsLetter(c)
    THEN FromCharCode(JsRem(c - Base(c) - shift + 26, 26) + Base(c))
    ELSE c

\* text.split('').map(...).join('')
CaesarEncrypt(shift, text) ==
    Returned([i \in 1..Len(text) |-> CaesarEncryptChar(shift, text[i])])

CaesarDecrypt(shift, text) ==
    Returned([i \in 1..Len(text) |-> CaesarDecryptChar(shift, text[i])])

(***************************************************************************)
(* VigenereCipher                                                          *)
(***************************************************************************)

\* key[j] without the wrap-around of j
KeyAtNoWrap(key, j) ==
    IF j < Len(key) THEN <<key[j + 1]>> ELSE <<>>

\* this.key[j % this.key.length]: <<c>> for the character found, <<>> for
\* undefined (with an empty key j % 0 is NaN, and key[NaN] is undefined)
KeyAt(key, j) ==
    IF Len(key) = 0 THEN <<>> ELSE <<key[(j % Len(key)) + 1]>>

\* keyChar = (...).toLowerCase(); keyCode = keyChar.charCodeAt(0) - 97
KeyCode(keyChar) == ToLowerCase(keyChar) - 97

VigenereEncryptChar(keyCode, c) ==
    FromCharCode(JsRem(c - Base(c) + keyCode, 26) + Base(c))

VigenereDecryptChar(keyCode, c) ==
    FromCharCode(JsRem(c - Base(c) - keyCode + 26, 26) + Base(c))

\* the loop of encrypt with j++ in the loop header: the key index advances
\* on every character
RECURSIVE VigenereEncryptFromEveryChar(_, _, _, _, _)
VigenereEncryptFromEveryChar(key, text, i, j, result) ==
    IF i > Len(text)
    THEN Returned(result)
    ELSE IF IsLetter(text[i])
         THEN IF KeyAt(key, j) = <<>>
              THEN TypeError
              ELSE VigenereEncryptFromEveryChar(key, text, i + 1, j + 1,
                       Append(result,
                              VigenereEncryptChar(KeyCode(KeyAt(key, j)[1]),
                                                  text[i])))
         ELSE VigenereEncryptFromEveryChar(key, text, i + 1, j + 1,
                  Append(result, text[i]))

\* the loop of encrypt from position i (1-based) with key index j and the
\* result built so far; undefined.toLowerCase() raises a TypeError
RECURSIVE VigenereEncryptFrom(_, _, _, _, _)
VigenereEncryptFrom(key, text, i, j, result) ==
    IF i > Len(text)
    THEN Returned(result)
    ELSE IF IsLetter(text[i])
         THEN IF KeyAt(key, j) = <<>>
              THEN TypeError
              ELSE VigenereEncryptFrom(key, text, i + 1, j + 1,
                       Append(result,
                              VigenereEncryptChar(KeyCode(KeyAt(key, j)[1]),
                                                  text[i])))
         ELSE VigenereEncryptFrom(key, text, i + 1, j, Append(result, text[i]))

RECURSIVE VigenereDecryptFrom(_, _, _, _, _)
VigenereDecryptFrom(key, text, i, j, result) ==
    IF i > Len(text)
    THEN Returned(result)
    ELSE IF IsLetter(text[i])
         THEN IF KeyAt(key, j) = <<>>
              THEN TypeError
              ELSE VigenereDecryptFrom(key, text, i + 1, j + 1,
                       Append(result,
                              VigenereDecryptChar(KeyCode(KeyAt(key, j)[1]),
                                                  text[i])))
         ELSE VigenereDecryptFrom(key, text, i + 1, j, Append(result, text[i]))

VigenereEncrypt(key, text) == VigenereEncryptFrom(key, text, 1, 0, <<>>)

VigenereDecrypt(key, text) == VigenereDecryptFrom(key, text, 1, 0, <<>>)

(***************************************************************************)
(* CipherStrategy: the two concrete strategies behind one interface.       *)
(***************************************************************************)
NewCaesarCipher(shift) == [kind |-> "caesar", shift |-> shift, key |-> <<>>]

NewVigenereCipher(key) == [kind |-> "vigenere", shift |-> 0, key |-> key]

Strategies ==
    {NewCaesarCipher(shift) : shift \in Shifts}
        \cup {NewVigenereCipher(key) : key \in Keys}

StrategyEncrypt(s, text) ==
    IF s.kind = "caesar"
    THEN CaesarEncrypt(s.shift, text)
    ELSE VigenereEncrypt(s.key, text)

StrategyDecrypt(s, text) ==
    IF s.kind = "caesar"
    THEN CaesarDecrypt(s.shift, text)
    ELSE VigenereDecrypt(s.key, text)

(***************************************************************************)
(* The state of an example that a specification does not exercise.         *)
(***************************************************************************)
CipherIdle ==
    /\ strategy = NewCaesarCipher(0)
    /\ plaintext = <<>>
    /\ call = "none"
    /\ input = <<>>
    /\ output = Returned(<<>>)
    /\ chained = FALSE

NoOp == [ctx |-> "none", op |-> "none", ref |-> "none"]

NoResult == [input |-> <<>>, output |-> Returned(<<>>)]

ContextIdle ==
    /\ strategyObjects = <<>>
    /\ textCipher = <<>>
    /\ lastSet = <<>>
    /\ swapped = <<>>
    /\ ctxOp = NoOp
    /\ ctxResult = NoResult

SwapIdle ==
    /\ swapPc = "idle"
    /\ swapText = <<>>
    /\ encrypted = <<>>
    /\ decrypted = <<>>
    /\ vigenereDecrypted = <<>>

ObserverIdle ==
    /\ listeners = <<>>
    /\ articleCount = 0
    /\ delivered = <<>>
    /\ received = <<>>
    /\ events = <<>>

NotifierIdle ==
    /\ notifier = "none"
    /\ notifyUser = ""
    /\ notifyAddress = ""
    /\ notifyPc = "idle"
    /\ content = <<>>
    /\ notifyCalls = <<>>
    /\ notifyResult = "none"
    /\ notifyCount = 0

\* new Pizza(size): the field initialisers and the constructor
NewPizza(size) ==
    [size |-> size, olivesAmount |-> 0, hasCheese |-> FALSE,
     cheeseType |-> "undefined", hasPepperoni |-> FALSE,
     hasOnions |-> FALSE, stuffedCrust |-> "undefined"]

BuilderIdle ==
    /\ builder = [pizza |-> NewPizza(0), pizzaSize |-> 0]
    /\ bakedPizza = NewPizza(0)
    /\ builderCalls = <<>>

NoSizeCall == [component |-> "none", threw |-> FALSE, size |-> 0]

CompositeIdle ==
    /\ childrenComponents = <<>>
    /\ added = <<>>
    /\ sizeCall = NoSizeCall

\* the state of the examples other than the Strategy example
OthersIdle ==
    /\ ObserverIdle
    /\ NotifierIdle
    /\ BuilderIdle
    /\ CompositeIdle

(***************************************************************************)
(* The cipher state machine.  A strategy instance has been constructed     *)
(* (the constructors store their argument unchecked) and the caller holds  *)
(* a text; encrypt and decrypt are then called on the instance, on the     *)
(* text or, as the example usage does, decrypt on the text that encrypt    *)
(* has just returned.                                                      *)
(***************************************************************************)
Init ==
    /\ strategy \in Strategies
    /\ plaintext \in Texts
    /\ call = "none"
    /\ input = <<>>
    /\ output = Returned(<<>>)
    /\ chained = FALSE
    /\ ContextIdle
    /\ SwapIdle
    /\ OthersIdle

\* strategy.encrypt(plaintext)
Encrypt ==
    /\ input' = plaintext
    /\ output' = StrategyEncrypt(strategy, plaintext)
    /\ call' = "encrypt"
    /\ chained' = FALSE
    /\ UNCHANGED <<strategy, plaintext, notCipherVars>>

\* strategy.decrypt(plaintext)
Decrypt ==
    /\ input' = plaintext
    /\ output' = StrategyDecrypt(strategy, plaintext)
    /\ call' = "decrypt"
    /\ chained' = FALSE
    /\ UNCHANGED <<strategy, plaintext, notCipherVars>>

\* strategy.decrypt(encrypted) with encrypted = strategy.encrypt(plaintext)
DecryptEncrypted ==
    /\ call = "encrypt"
    /\ ~output.threw
    /\ input' = output.text
    /\ output' = StrategyDecrypt(strategy, output.text)
    /\ call' = "decrypt"
    /\ chained' = TRUE
    /\ UNCHANGED <<strategy, plaintext, notCipherVars>>

Next ==
    \/ Encrypt
    \/ Decrypt
    \/ DecryptEncrypted

Spec == Init /\ [][Next]_vars

(***************************************************************************)
(* TextCipher: the context that holds the active strategy.  Two strategy   *)
(* objects exist, as in the example usage (const caesar, const vigenere),  *)
(* and two TextCipher instances hold a reference to one of them each.      *)
(***************************************************************************)
MaxCtxLen == 2      \* longest text enumerated over CtxChars

StrategyRefs == {"caesar", "vigenere"}

Contexts == {"textCipher", "otherCipher"}

\* 'a', 'Z', '1'
CtxChars == {97, 90, 49}

CtxTexts == SeqsUpTo(CtxChars, MaxCtxLen) \cup {HelloWorld}

CtxShifts == {-1, 3, 4}

CtxKeys == {<<>>, KeyKEY, <<101>>}

\* this.strategy = strategy written through every TextCipher, as a static
\* field would be
SetStrategyFieldOfAll(fields, ctx, ref) == [c \in DOMAIN fields |-> ref]

\* setStrategy assigning its own parameter: the field keeps its value
SetStrategyFieldKept(fields, ctx, ref) == fields

\* setStrategy: this.strategy = strategy
SetStrategyField(fields, ctx, ref) == [fields EXCEPT ![ctx] = ref]

\* encrypt delegating to this.strategy.decrypt
TextCipherEncryptByDecrypt(objects, field, text) ==
    StrategyDecrypt(objects[field], text)

\* TextCipher.encrypt: return this.strategy.encrypt(text)
TextCipherEncrypt(objects, field, text) ==
    StrategyEncrypt(objects[field], text)

\* TextCipher.decrypt: return this.strategy.decrypt(text)
TextCipherDecrypt(objects, field, text) ==
    StrategyDecrypt(objects[field], text)

\* const caesar = new CaesarCipher(..); const vigenere = new
\* VigenereCipher(..); new TextCipher(strategy) for each context
ContextInit ==
    /\ \E shift \in CtxShifts, key \in CtxKeys :
          strategyObjects = [caesar |-> NewCaesarCipher(shift),
                             vigenere |-> NewVigenereCipher(key)]
    /\ textCipher \in [Contexts -> StrategyRefs]
    /\ lastSet = textCipher
    /\ swapped = [c \in Contexts |-> FALSE]
    /\ ctxOp = NoOp
    /\ ctxResult = NoResult
    /\ CipherIdle
    /\ SwapIdle
    /\ OthersIdle

\* ctx.setStrategy(ref)
SetStrategy ==
    /\ \E ctx \in Contexts, ref \in StrategyRefs :
          /\ textCipher' = SetStrategyField(textCipher, ctx, ref)
          /\ lastSet' = [lastSet EXCEPT ![ctx] = ref]
          /\ swapped' = [swapped EXCEPT ![ctx] = TRUE]
          /\ ctxOp' = [ctx |-> ctx, op |-> "setStrategy", ref |-> ref]
    /\ UNCHANGED <<strategyObjects, ctxResult, notContextVars>>

\* ctx.encrypt(text)
ContextEncrypt ==
    /\ \E ctx \in Contexts, text \in CtxTexts :
          /\ ctxResult' =
                 [input |-> text,
                  output |-> TextCipherEncrypt(strategyObjects,
                                               textCipher[ctx], text)]
          /\ ctxOp' = [ctx |-> ctx, op |-> "encrypt", ref |-> lastSet[ctx]]
    /\ UNCHANGED <<strategyObjects, textCipher, lastSet, swapped,
                   notContextVars>>

\* ctx.decrypt(text)
ContextDecrypt ==
    /\ \E ctx \in Contexts, text \in CtxTexts :
          /\ ctxResult' =
                 [input |-> text,
                  output |-> TextCipherDecrypt(strategyObjects,
                                               textCipher[ctx], text)]
          /\ ctxOp' = [ctx |-> ctx, op |-> "decrypt", ref |-> lastSet[ctx]]
    /\ UNCHANGED <<strategyObjects, textCipher, lastSet, swapped,
                   notContextVars>>

ContextNext ==
    \/ SetStrategy
    \/ ContextEncrypt
    \/ ContextDecrypt

SpecContext == ContextInit /\ [][ContextNext]_vars

(***************************************************************************)
(* The second part of the example usage (lines 152-162): one TextCipher    *)
(* that holds the Vigenere strategy encrypts a text, is switched to the    *)
(* Caesar strategy, decrypts and re-encrypts, is switched back and         *)
(* decrypts.  A call that throws ends the script.                          *)
(***************************************************************************)
SecretMessage ==
    <<84, 104, 105, 115, 32, 105, 115, 32, 97, 32, 115, 101, 99, 114, 101,
      116, 32, 109, 101, 115, 115, 97, 103, 101, 46>>

SwapTexts == CtxTexts \cup {SecretMessage}

\* '', 'KEY', 'e', '1', 'Ke'
SwapKeys == {<<>>, KeyKEY, <<101>>, <<49>>, <<75, 101>>}

\* the script after a statement that returned r: on to pc, or aborted
AfterCall(r, pc) == IF r.threw THEN "aborted" ELSE pc

SwapInit ==
    /\ \E shift \in Shifts, key \in SwapKeys :
          strategyObjects = [caesar |-> NewCaesarCipher(shift),
                             vigenere |-> NewVigenereCipher(key)]
    /\ textCipher = [c \in Contexts |-> "vigenere"]
    /\ lastSet = textCipher
    /\ swapped = [c \in Contexts |-> FALSE]
    /\ ctxOp = NoOp
    /\ ctxResult = NoResult
    /\ swapPc = "encrypt152"
    /\ swapText \in SwapTexts
    /\ encrypted = <<>>
    /\ decrypted = <<>>
    /\ vigenereDecrypted = <<>>
    /\ CipherIdle
    /\ OthersIdle

\* const encrypted = textCipher.encrypt(text)
SwapEncrypt152 ==
    /\ swapPc = "encrypt152"
    /\ LET r == TextCipherEncrypt(strategyObjects, textCipher["textCipher"],
                                  swapText)
       IN  /\ encrypted' = r.text
           /\ swapPc' = AfterCall(r, "setStrategy155")
    /\ UNCHANGED <<strategyObjects, textCipher, swapText, decrypted,
                   vigenereDecrypted, notSwapVars>>

\* textCipher.setStrategy(caesar)
SwapSetStrategy155 ==
    /\ swapPc = "setStrategy155"
    /\ textCipher' = SetStrategyField(textCipher, "textCipher", "caesar")
    /\ swapPc' = "decrypt156"
    /\ UNCHANGED <<strategyObjects, swapText, encrypted, decrypted,
                   vigenereDecrypted, notSwapVars>>

\* let decrypted = textCipher.decrypt(encrypted)
SwapDecrypt156 ==
    /\ swapPc = "decrypt156"
    /\ LET r == TextCipherDecrypt(strategyObjects, textCipher["textCipher"],
                                  encrypted)
       IN  /\ decrypted' = r.text
           /\ swapPc' = AfterCall(r, "encrypt158")
    /\ UNCHANGED <<strategyObjects, textCipher, swapText, encrypted,
                   vigenereDecrypted, notSwapVars>>

\* decrypted = textCipher.encrypt(decrypted)
SwapEncrypt158 ==
    /\ swapPc = "encrypt158"
    /\ LET r == TextCipherEncrypt(strategyObjects, textCipher["textCipher"],
                                  decrypted)
       IN  /\ decrypted' = r.text
           /\ swapPc' = AfterCall(r, "setStrategy160")
    /\ UNCHANGED <<strategyObjects, textCipher, swapText, encrypted,
                   vigenereDecrypted, notSwapVars>>

\* textCipher.setStrategy(vigenere)
SwapSetStrategy160 ==
    /\ swapPc = "setStrategy160"
    /\ textCipher' = SetStrategyField(textCipher, "textCipher", "vigenere")
    /\ swapPc' = "decrypt161"
    /\ UNCHANGED <<strategyObjects, swapText, encrypted, decrypted,
                   vigenereDecrypted, notSwapVars>>

\* const vigenereDecrypted = textCipher.decrypt(decrypted)
SwapDecrypt161 ==
    /\ swapPc = "decrypt161"
    /\ LET r == TextCipherDecrypt(strategyObjects, textCipher["textCipher"],
                                  decrypted)
       IN  /\ vigenereDecrypted' = r.text
           /\ swapPc' = AfterCall(r, "done")
    /\ UNCHANGED <<strategyObjects, textCipher, swapText, encrypted,
                   decrypted, notSwapVars>>

SwapNext ==
    \/ SwapEncrypt152
    \/ SwapSetStrategy155
    \/ SwapDecrypt156
    \/ SwapEncrypt158
    \/ SwapSetStrategy160
    \/ SwapDecrypt161

SpecSwap == SwapInit /\ [][SwapNext]_vars

(***************************************************************************)
(* Observer example (src/behavioral_patterns/observer.ts): a Newsletter    *)
(* with its array of listeners, the Author that publishes articles #1, #2, *)
(* ... through it, and Readers whose update records the article.           *)
(***************************************************************************)
MaxEvents == 4      \* subscribe, unsubscribe and writeArticle calls made

Readers == {"john", "jane", "jack"}

\* unsubscribe with splice(indexOf(listener), 1): the first entry only
RECURSIVE RemoveFirst(_, _)
RemoveFirst(ls, listener) ==
    IF ls = <<>>
    THEN <<>>
    ELSE IF Head(ls) = listener
         THEN Tail(ls)
         ELSE <<Head(ls)>> \o RemoveFirst(Tail(ls), listener)

\* notify walking the array from its end
UpdateCallsReversed(ls, article) ==
    [i \in 1..Len(ls) |->
        [listener |-> ls[Len(ls) + 1 - i], article |-> article]]

\* subscribe: this.listeners.push(listener)
Subscribed(ls, listener) == Append(ls, listener)

\* unsubscribe: this.listeners.filter((l) => l !== listener)
Unsubscribed(ls, listener) == SelectSeq(ls, LAMBDA l : l # listener)

\* notify: this.listeners.forEach((listener) => listener.update(article)),
\* the update calls in the order they are made
UpdateCalls(ls, article) ==
    [i \in 1..Len(ls) |-> [listener |-> ls[i], article |-> article]]

\* Reader.update: the articles of the calls made on reader r, in order
ArticlesFor(calls, r) ==
    LET mine == SelectSeq(calls, LAMBDA c : c.listener = r)
    IN  [i \in 1..Len(mine) |-> mine[i].article]

\* const newsletter = new Newsletter(); const author = new Author();
\* author.newsletter = newsletter
ObserverInit ==
    /\ listeners = <<>>
    /\ articleCount = 0
    /\ delivered = <<>>
    /\ received = [r \in Readers |-> <<>>]
    /\ events = <<>>
    /\ CipherIdle
    /\ ContextIdle
    /\ SwapIdle
    /\ NotifierIdle
    /\ BuilderIdle
    /\ CompositeIdle

\* newsletter.subscribe(listener)
Subscribe ==
    /\ Len(events) < MaxEvents
    /\ \E listener \in Readers :
          /\ listeners' = Subscribed(listeners, listener)
          /\ events' = Append(events, [op |-> "subscribe",
                                       listener |-> listener])
    /\ UNCHANGED <<articleCount, delivered, received, notObserverVars>>

\* newsletter.unsubscribe(listener)
Unsubscribe ==
    /\ Len(events) < MaxEvents
    /\ \E listener \in Readers :
          /\ listeners' = Unsubscribed(listeners, listener)
          /\ events' = Append(events, [op |-> "unsubscribe",
                                       listener |-> listener])
    /\ UNCHANGED <<articleCount, delivered, received, notObserverVars>>

\* author.writeArticle(): this.newsletter.notify(`#${++this.articleCount}`)
WriteArticle ==
    /\ Len(events) < MaxEvents
    /\ articleCount' = articleCount + 1
    /\ delivered' = UpdateCalls(listeners, articleCount + 1)
    /\ received' = [r \in Readers |->
                       received[r] \o ArticlesFor(delivered', r)]
    /\ events' = Append(events, [op |-> "notify", listener |-> "none"])
    /\ UNCHANGED <<listeners, notObserverVars>>

ObserverNext ==
    \/ Subscribe
    \/ Unsubscribe
    \/ WriteArticle

SpecObserver == ObserverInit /\ [][ObserverNext]_vars

(***************************************************************************)
(* Template Method example (src/behavioral_patterns/template_method.ts):   *)
(* Notifier.notify runs its statements one after the other on an           *)
(* EmailNotifier or an SMSNotifier.                                        *)
(***************************************************************************)
MaxNotifies == 2    \* notify calls made

NotifierClasses == {"EmailNotifier", "SMSNotifier"}

Users == {"", "Alice", "Bob"}

Addresses == {"", "alice@yourmail.com", "+1234567890", "+0987654321"}

\* the guard written with && : both arguments missing
BothMissing(user, address) == user = "" /\ address = ""

\* !user || !address: the empty string is falsy
NotProvided(user, address) == user = "" \/ address = ""

\* `Hello, ${user}! This is a notification just for you.`
Prepare(user) ==
    <<"Hello, ", user, "! This is a notification just for you.">>

\* notify with the two steps exchanged: send runs first
StatementAfterSendFirst(pc) ==
    CASE pc = "check" -> "send"
      [] pc = "send" -> "prepare"
      [] pc = "prepare" -> "log"
      [] pc = "log" -> "returned"

\* the statements of notify in the order of the method body
StatementAfter(pc) ==
    CASE pc = "check" -> "prepare"
      [] pc = "prepare" -> "send"
      [] pc = "send" -> "log"
      [] pc = "log" -> "returned"

\* const emailNotifier = new EmailNotifier(); const smsNotifier = new
\* SMSNotifier()
NotifierInit ==
    /\ notifier = "none"
    /\ notifyUser = ""
    /\ notifyAddress = ""
    /\ notifyPc = "idle"
    /\ content = <<>>
    /\ notifyCalls = <<>>
    /\ notifyResult = "none"
    /\ notifyCount = 0
    /\ CipherIdle
    /\ ContextIdle
    /\ SwapIdle
    /\ ObserverIdle
    /\ BuilderIdle
    /\ CompositeIdle

\* emailNotifier.notify(user, address) or smsNotifier.notify(user, address)
NotifyCall ==
    /\ notifyPc \in {"idle", "returned", "thrown"}
    /\ notifyCount < MaxNotifies
    /\ notifier' \in NotifierClasses
    /\ notifyUser' \in Users
    /\ notifyAddress' \in Addresses
    /\ notifyPc' = "check"
    /\ content' = <<>>
    /\ notifyCalls' = <<>>
    /\ notifyResult' = "none"
    /\ notifyCount' = notifyCount + 1
    /\ UNCHANGED notNotifierVars

\* if (!user || !address) throw new Error('User and address must be provided')
NotifyThrow ==
    /\ notifyPc = "check"
    /\ NotProvided(notifyUser, notifyAddress)
    /\ notifyPc' = "thrown"
    /\ notifyResult' = "Error"
    /\ UNCHANGED <<notifier, notifyUser, notifyAddress, content, notifyCalls,
                   notifyCount, notNotifierVars>>

\* the guard passes
NotifyCheckPassed ==
    /\ notifyPc = "check"
    /\ ~NotProvided(notifyUser, notifyAddress)
    /\ notifyPc' = StatementAfter(notifyPc)
    /\ UNCHANGED <<notifier, notifyUser, notifyAddress, content, notifyCalls,
                   notifyResult, notifyCount, notNotifierVars>>

\* const content = this.prepare(user)
NotifyPrepare ==
    /\ notifyPc = "prepare"
    /\ content' = Prepare(notifyUser)
    /\ notifyCalls' = Append(notifyCalls,
                             [fn |-> "prepare", on |-> notifier,
                              user |-> notifyUser, content |-> content',
                              address |-> ""])
    /\ notifyPc' = StatementAfter(notifyPc)
    /\ UNCHANGED <<notifier, notifyUser, notifyAddress, notifyResult,
                   notifyCount, notNotifierVars>>

\* this.send(content, address): EmailNotifier.send or SMSNotifier.send
NotifySend ==
    /\ notifyPc = "send"
    /\ notifyCalls' = Append(notifyCalls,
                             [fn |-> "send", on |-> notifier,
                              user |-> "", content |-> content,
                              address |-> notifyAddress])
    /\ notifyPc' = StatementAfter(notifyPc)
    /\ UNCHANGED <<notifier, notifyUser, notifyAddress, content,
                   notifyResult, notifyCount, notNotifierVars>>

\* console.log(`Notification sent to ...`); return true
NotifyReturn ==
    /\ notifyPc = "log"
    /\ notifyResult' = "true"
    /\ notifyPc' = StatementAfter(notifyPc)
    /\ UNCHANGED <<notifier, notifyUser, notifyAddress, content, notifyCalls,
                   notifyCount, notNotifierVars>>

NotifierNext ==
    \/ NotifyCall
    \/ NotifyThrow
    \/ NotifyCheckPassed
    \/ NotifyPrepare
    \/ NotifySend
    \/ NotifyReturn

SpecNotifier == NotifierInit /\ [][NotifierNext]_vars

(***************************************************************************)
(* Builder example (src/creational_patterns/builder.ts): MyPizzeria keeps  *)
(* a Pizza in preparation and the size asked for, and bake returns a new   *)
(* Pizza with their values.                                                *)
(***************************************************************************)
MaxBuilderCalls == 4    \* calls made on the builder

Sizes == {30, 40}

OliveAmounts == {16}

Crusts == {"cheddar"}

\* bake without the final this.reset()
AfterBakeKept(b) == b

\* reset(): this.pizza = new Pizza(0); this.pizzaSize = 0
ResetBuilder(b) == [pizza |-> NewPizza(0), pizzaSize |-> 0]

\* what bake leaves behind: this.reset()
AfterBake(b) == ResetBuilder(b)

\* bake: new Pizza(this.pizzaSize) with the six fields copied from
\* this.pizza
BakedPizza(b) ==
    [NewPizza(b.pizzaSize) EXCEPT
        !.olivesAmount = b.pizza.olivesAmount,
        !.hasCheese = b.pizza.hasCheese,
        !.cheeseType = b.pizza.cheeseType,
        !.hasPepperoni = b.pizza.hasPepperoni,
        !.hasOnions = b.pizza.hasOnions,
        !.stuffedCrust = b.pizza.stuffedCrust]

Called(op, arg) == Append(builderCalls, [op |-> op, arg |-> arg])

\* const builder = new MyPizzeria(): the constructor calls reset()
BuilderInit ==
    /\ builder = [pizza |-> NewPizza(0), pizzaSize |-> 0]
    /\ bakedPizza = NewPizza(0)
    /\ builderCalls = <<>>
    /\ CipherIdle
    /\ ContextIdle
    /\ SwapIdle
    /\ ObserverIdle
    /\ NotifierIdle
    /\ CompositeIdle

\* builder.reset()
Reset ==
    /\ Len(builderCalls) < MaxBuilderCalls
    /\ builder' = ResetBuilder(builder)
    /\ builderCalls' = Called("reset", "none")
    /\ UNCHANGED <<bakedPizza, notBuilderVars>>

\* builder.setSize(size)
SetSize ==
    /\ Len(builderCalls) < MaxBuilderCalls
    /\ \E size \in Sizes :
          /\ builder' = [builder EXCEPT !.pizzaSize = size]
          /\ builderCalls' = Called("setSize", size)
    /\ UNCHANGED <<bakedPizza, notBuilderVars>>

\* builder.setOlivesAmount(amount)
SetOlivesAmount ==
    /\ Len(builderCalls) < MaxBuilderCalls
    /\ \E amount \in OliveAmounts :
          /\ builder' = [builder EXCEPT !.pizza.olivesAmount = amount]
          /\ builderCalls' = Called("setOlivesAmount", amount)
    /\ UNCHANGED <<bakedPizza, notBuilderVars>>

\* builder.addCheese()
AddCheese ==
    /\ Len(builderCalls) < MaxBuilderCalls
    /\ builder' = [builder EXCEPT !.pizza.hasCheese = TRUE,
                                  !.pizza.cheeseType = "mozzarella"]
    /\ builderCalls' = Called("addCheese", "none")
    /\ UNCHANGED <<bakedPizza, notBuilderVars>>

\* builder.addPepperoni()
AddPepperoni ==
    /\ Len(builderCalls) < MaxBuilderCalls
    /\ builder' = [builder EXCEPT !.pizza.hasPepperoni = TRUE]
    /\ builderCalls' = Called("addPepperoni", "none")
    /\ UNCHANGED <<bakedPizza, notBuilderVars>>

\* builder.addOnions()
AddOnions ==
    /\ Len(builderCalls) < MaxBuilderCalls
    /\ builder' = [builder EXCEPT !.pizza.hasOnions = TRUE]
    /\ builderCalls' = Called("addOnions", "none")
    /\ UNCHANGED <<bakedPizza, notBuilderVars>>

\* builder.setStuffedCrust(stuffedCrust)
SetStuffedCrust ==
    /\ Len(builderCalls) < MaxBuilderCalls
    /\ \E stuffedCrust \in Crusts :
          /\ builder' = [builder EXCEPT !.pizza.stuffedCrust = stuffedCrust]
          /\ builderCalls' = Called("setStuffedCrust", stuffedCrust)
    /\ UNCHANGED <<bakedPizza, notBuilderVars>>

\* builder.bake()
Bake ==
    /\ Len(builderCalls) < MaxBuilderCalls
    /\ bakedPizza' = BakedPizza(builder)
    /\ builder' = AfterBake(builder)
    /\ builderCalls' = Called("bake", "none")
    /\ UNCHANGED notBuilderVars

BuilderNext ==
    \/ Reset
    \/ SetSize
    \/ SetOlivesAmount
    \/ AddCheese
    \/ AddPepperoni
    \/ AddOnions
    \/ SetStuffedCrust
    \/ Bake

SpecBuilder == BuilderInit /\ [][BuilderNext]_vars

(***************************************************************************)
(* Composite example (src/unnamed/part_000): files with a size, folders    *)
(* with an array of children, and getSize that adds up the children.       *)
(* addComponent checks nothing, so a folder can be put below itself; the   *)
(* recursion of getSize then never ends and the call throws a RangeError.  *)
(***************************************************************************)
MaxAdds == 3        \* addComponent calls made

Files == {"file1.txt", "file2.txt", "file3.txt"}

Folders == {"MyFolder", "MySubFolder"}

Components == Files \cup Folders

\* new MyFile(name, size)
FileSize ==
    [f \in Files |->
        CASE f = "file1.txt" -> 100
          [] f = "file2.txt" -> 200
          [] f = "file3.txt" -> 300]

SeqRange(s) == {s[i] : i \in 1..Len(s)}

\* the components below the components of S, through at most n more levels
RECURSIVE BelowWithin(_, _, _)
BelowWithin(ch, S, n) ==
    IF n = 0
    THEN S
    ELSE BelowWithin(ch,
                     S \cup UNION {SeqRange(ch[f]) : f \in S \cap Folders},
                     n - 1)

\* the components below component c: its children, their children, ...
Below(ch, c) ==
    IF c \in Files
    THEN {}
    ELSE BelowWithin(ch, SeqRange(ch[c]), Cardinality(Folders))

\* getSize on c recurses without end: a folder at or below c is below itself
Overflows(ch, c) ==
    \E f \in ({c} \cup Below(ch, c)) \cap Folders : f \in Below(ch, f)

RECURSIVE GetSize(_, _)
RECURSIVE Reduce(_, _, _, _)

\* childrenComponents.reduce((total, child) => total + child.getSize(), 0)
\* from the i-th child on
Reduce(ch, kids, i, total) ==
    IF i > Len(kids)
    THEN total
    ELSE Reduce(ch, kids, i + 1, total + GetSize(ch, kids[i]))

\* getSize with a reduce that has no initial value and so starts at the
\* second child
GetSizeFromSecond(ch, c) ==
    IF c \in Files
    THEN FileSize[c]
    ELSE Reduce(ch, ch[c], 2, 0)

\* MyFile.getSize and Folder.getSize, for a structure without a cycle
GetSize(ch, c) ==
    IF c \in Files
    THEN FileSize[c]
    ELSE Reduce(ch, ch[c], 1, 0)

\* const myFolder = new Folder(..); const mySubFolder = new Folder(..);
\* const myFile1 = new MyFile(..); ...
CompositeInit ==
    /\ childrenComponents = [f \in Folders |-> <<>>]
    /\ added = <<>>
    /\ sizeCall = NoSizeCall
    /\ CipherIdle
    /\ ContextIdle
    /\ SwapIdle
    /\ ObserverIdle
    /\ NotifierIdle
    /\ BuilderIdle

\* folder.addComponent(component)
AddComponent ==
    /\ Len(added) < MaxAdds
    /\ \E folder \in Folders, component \in Components :
          /\ childrenComponents' =
                 [childrenComponents EXCEPT
                     ![folder] = Append(@, component)]
          /\ added' = Append(added, [folder |-> folder,
                                     component |-> component])
    /\ UNCHANGED <<sizeCall, notCompositeVars>>

\* component.getSize()
CallGetSize ==
    /\ \E component \in Components :
          sizeCall' =
              IF Overflows(childrenComponents, component)
              THEN [component |-> component, threw |-> TRUE, size |-> 0]
              ELSE [component |-> component, threw |-> FALSE,
                    size |-> GetSize(childrenComponents, component)]
    /\ UNCHANGED <<childrenComponents, added, notCompositeVars>>

CompositeNext ==
    \/ AddComponent
    \/ CallGetSize

SpecComposite == CompositeInit /\ [][CompositeNext]_vars

(***************************************************************************)
(* Vocabulary of the properties, defined from the ASCII table and          *)
(* independently of the operators that model the code.                     *)
(***************************************************************************)
AsciiUpper(c) == c \in 65..90
AsciiLower(c) == c \in 97..122
AsciiLetter(c) == AsciiUpper(c) \/ AsciiLower(c)

\* position of a letter in the alphabet, 0..25, whatever its case
AlphaPos(c) == IF AsciiUpper(c) THEN c - 65 ELSE c - 97

\* the letter of the case of c at position (p + k) mod 26, p the position of
\* c; % is the mathematical modulo, with a result in 0..25
ShiftLetter(c, k) ==
    (IF AsciiUpper(c) THEN 65 ELSE 97) + ((AlphaPos(c) + k) % 26)

\* number of letters of t before position i
LettersBefore(t, i) == Cardinality({m \in 1..(i - 1) : AsciiLetter(t[m])})

HasLetter(t) == \E i \in 1..Len(t) : AsciiLetter(t[i])
AllLetters(t) == \A i \in 1..Len(t) : AsciiLetter(t[i])

LettersOf(key) == SelectSeq(key, AsciiLetter)

IsCaesar == strategy.kind = "caesar"
IsVigenere == strategy.kind = "vigenere"

(***************************************************************************)
(* C1..C10: the cipher strategies                                          *)
(***************************************************************************)

\* C1: Caesar round trip: for every integer shift and every text of
\* printable ASCII characters, decrypt(encrypt(t)) = t.
CaesarRoundTrip ==
    (IsCaesar /\ chained) => output = Returned(plaintext)

\* C2: Vigenere round trip: for every non-empty key, whatever characters it
\* contains, and every text of printable ASCII characters,
\* decrypt(encrypt(t)) = t.
VigenereRoundTrip ==
    (IsVigenere /\ Len(strategy.key) > 0 /\ chained)
        => output = Returned(plaintext)

\* C3: Caesar encrypt maps every letter at position p to the letter of the
\* same case at position (p + k) mod 26, for every integer k; shift 3 turns
\* 'Hello, World!' into 'Khoor, Zruog!'.
CaesarEncryptShiftsForward ==
    (IsCaesar /\ call = "encrypt")
        => /\ ~output.threw
           /\ Len(output.text) = Len(input)
           /\ \A i \in 1..Len(input) :
                 AsciiLetter(input[i])
                     => output.text[i] = ShiftLetter(input[i], strategy.shift)
           /\ (strategy.shift = 3 /\ input = HelloWorld)
                 => output.text = KhoorZruog

\* C4: Caesar decrypt maps every letter at position p to the letter of the
\* same case at position (p - k) mod 26, for every integer k.
CaesarDecryptShiftsBackward ==
    (IsCaesar /\ call = "decrypt")
        => /\ ~output.threw
           /\ Len(output.text) = Len(input)
           /\ \A i \in 1..Len(input) :
                 AsciiLetter(input[i])
                     => output.text[i]
                            = ShiftLetter(input[i], 0 - strategy.shift)

\* C5: Vigenere keystream: with a non-empty key of letters, encrypt shifts
\* the n-th letter of the text (n counted from 0 over the letters only)
\* forward by the alphabet position of key[n mod |key|], whatever the case of
\* the key character; key 'KEY' turns 'Hello, World!' into 'Rijvs, Uyvjn!'
\* and 'a1b' into 'k1f' (a and b use K and E).
VigenereKeystream ==
    (IsVigenere /\ Len(strategy.key) > 0 /\ AllLetters(strategy.key)
        /\ call = "encrypt")
        => /\ ~output.threw
           /\ Len(output.text) = Len(input)
           /\ \A i \in 1..Len(input) :
                 AsciiLetter(input[i])
                     => output.text[i]
                            = ShiftLetter(input[i],
                                  AlphaPos(strategy.key[
                                      (LettersBefore(input, i)
                                          % Len(strategy.key)) + 1]))
           /\ (strategy.key = KeyKEY /\ input = HelloWorld)
                 => output.text = RijvsUyvjn
           /\ (strategy.key = KeyKEY /\ input = TextA1b)
                 => output.text = <<107, 49, 102>>

VigenereKeystreamWitness ==
    /\ IsVigenere
    /\ strategy.key = KeyKEY
    /\ call = "encrypt"
    /\ input = HelloWorld
    /\ output = Returned(RijvsUyvjn)

\* C6: pass-through: for both strategies and both encrypt and decrypt, every
\* non-alphabetic character of the input is unchanged at the same position
\* of the returned text, which has the length of the input.
PassThrough ==
    (call # "none" /\ ~output.threw)
        => /\ Len(output.text) = Len(input)
           /\ \A i \in 1..Len(input) :
                 ~AsciiLetter(input[i]) => output.text[i] = input[i]

PassThroughWitness ==
    /\ IsVigenere
    /\ strategy.key = KeyKEY
    /\ call = "decrypt"
    /\ input = TextA1b
    /\ ~output.threw
    /\ output.text[2] = 49
    /\ output.text[1] # 97

\* C7: case preservation: for Caesar with any integer shift and Vigenere
\* with any non-empty key, encrypt and decrypt turn an uppercase letter into
\* an uppercase letter and a lowercase letter into a lowercase letter at the
\* same position; Caesar shift 1 turns 'AbC' into 'BcD'.
CasePreserved ==
    (call # "none" /\ (IsCaesar \/ Len(strategy.key) > 0))
        => /\ ~output.threw
           /\ Len(output.text) = Len(input)
           /\ \A i \in 1..Len(input) :
                 /\ AsciiUpper(input[i]) => AsciiUpper(output.text[i])
                 /\ AsciiLower(input[i]) => AsciiLower(output.text[i])
           /\ (IsCaesar /\ strategy.shift = 1 /\ call = "encrypt"
                   /\ input = TextAbC)
                 => output.text = TextBcD

\* C8: only the letters of a Vigenere key take part in the keystream: a key
\* and the key without its non-alphabetic characters encrypt and decrypt
\* every text identically.
KeyLettersOnly ==
    (IsVigenere /\ HasLetter(strategy.key))
        => /\ call = "encrypt"
                 => output = VigenereEncrypt(LettersOf(strategy.key), input)
           /\ call = "decrypt"
                 => output = VigenereDecrypt(LettersOf(strategy.key), input)

\* C9: an empty Vigenere key is rejected at construction: no VigenereCipher
\* with a key of length 0 exists, so no encrypt or decrypt call runs with an
\* empty key.
EmptyKeyRejected ==
    (IsVigenere /\ call # "none") => Len(strategy.key) > 0

\* C10: for every integer Caesar shift and every non-empty Vigenere key,
\* alphabetic or not, encrypt and decrypt return a text for every input text
\* and raise no error.
NeverFails ==
    (call # "none" /\ (IsCaesar \/ Len(strategy.key) > 0))
        => /\ ~output.threw
           /\ \A i \in 1..Len(output.text) : output.text[i] \in 0..65535

NeverFailsWitness ==
    /\ IsVigenere
    /\ Len(strategy.key) = 2
    /\ ~AllLetters(strategy.key)
    /\ call = "decrypt"
    /\ chained
    /\ Len(input) = 3
    /\ AllLetters(plaintext)
    /\ ~output.threw

(***************************************************************************)
(* C11..C13, C20: the TextCipher context                                   *)
(***************************************************************************)

\* C11: after any sequence of setStrategy, encrypt and decrypt calls on a
\* TextCipher, encrypt(t) and decrypt(t) return what the strategy most
\* recently set on it (the constructor's if none was set) returns for t;
\* encrypt and decrypt do not change the active strategy, and setStrategy
\* does not change a text returned earlier.
ContextUsesLastSetStrategy ==
    /\ [](ctxOp.op = "encrypt"
            => ctxResult.output
                   = StrategyEncrypt(strategyObjects[ctxOp.ref],
                                     ctxResult.input))
    /\ [](ctxOp.op = "decrypt"
            => ctxResult.output
                   = StrategyDecrypt(strategyObjects[ctxOp.ref],
                                     ctxResult.input))
    /\ [][/\ ctxOp'.op \in {"encrypt", "decrypt"} => textCipher' = textCipher
          /\ ctxOp'.op = "setStrategy" => ctxResult' = ctxResult]_vars

ContextUsesLastSetStrategyWitness ==
    /\ ctxOp.op = "encrypt"
    /\ swapped[ctxOp.ctx]
    /\ ctxOp.ref = "vigenere"
    /\ strategyObjects.vigenere.key = KeyKEY
    /\ ctxResult = [input |-> HelloWorld, output |-> Returned(RijvsUyvjn)]

\* C12: context independence: an operation on one TextCipher leaves the
\* active strategy of the other unchanged, also when both hold the same
\* strategy object, and no operation changes a strategy object; the active
\* strategy of a TextCipher is the one last set on that very TextCipher.
ContextsIndependent ==
    /\ [](\A c \in Contexts : textCipher[c] = lastSet[c])
    /\ [][/\ \A c \in Contexts :
                c # ctxOp'.ctx => textCipher'[c] = textCipher[c]
          /\ strategyObjects' = strategyObjects]_vars

ContextsIndependentWitness ==
    /\ ctxOp = [ctx |-> "textCipher", op |-> "setStrategy", ref |-> "vigenere"]
    /\ textCipher["textCipher"] = "vigenere"
    /\ textCipher["otherCipher"] = "caesar"
    /\ ~swapped["otherCipher"]

\* the shift of a key character as the keystream uses it: the code of its
\* lower-case form minus the code of 'a'
KeyShiftOf(c) == (IF AsciiUpper(c) THEN c + 32 ELSE c) - 97

\* the key character that meets position i of the text t
KeyCharFor(key, t, i) == key[(LettersBefore(t, i) % Len(key)) + 1]

SwapShift == strategyObjects.caesar.shift
SwapKey == strategyObjects.vigenere.key

OfgspRvsgk == <<79, 102, 103, 115, 112, 44, 32, 82, 118, 115, 103, 107, 33>>

RecoveryAfterMismatch ==
    (SwapKey = KeyKEY /\ SwapShift = 3)
        => /\ swapPc # "aborted"
           /\ swapPc \in {"setStrategy160", "decrypt161", "done"}
                 => decrypted = encrypted
           /\ swapPc = "done" => vigenereDecrypted = swapText

RecoveryAfterMismatchWitness ==
    /\ swapPc = "done"
    /\ SwapKey = KeyKEY
    /\ SwapShift = 3
    /\ swapText = SecretMessage
    /\ vigenereDecrypted = SecretMessage
    /\ encrypted # SecretMessage

(***************************************************************************)
(* C14, C15: the Newsletter                                                *)
(***************************************************************************)

\* the subscriptions in force after the calls ev: the listeners of the
\* subscribe calls that no later unsubscribe call of the same listener
\* follows, in the order of those subscribe calls
RECURSIVE SubscriptionsFrom(_, _)
SubscriptionsFrom(ev, i) ==
    IF i > Len(ev)
    THEN <<>>
    ELSE (IF /\ ev[i].op = "subscribe"
             /\ ~\E j \in (i + 1)..Len(ev) :
                    /\ ev[j].op = "unsubscribe"
                    /\ ev[j].listener = ev[i].listener
          THEN <<ev[i].listener>>
          ELSE <<>>) \o SubscriptionsFrom(ev, i + 1)

Subscriptions(ev) == SubscriptionsFrom(ev, 1)

LastEvent == events[Len(events)]

\* C14: notify(article) calls update(article) on every listener subscribed
\* at that moment, once per subscription, in the order of the
\* subscriptions, and on no other listener.
NotifyReachesSubscribers ==
    (events # <<>> /\ LastEvent.op = "notify")
        => LET subs == Subscriptions(events)
           IN  /\ Len(delivered) = Len(subs)
               /\ \A i \in 1..Len(subs) :
                     delivered[i] = [listener |-> subs[i],
                                     article |-> articleCount]

NotifyReachesSubscribersWitness ==
    /\ events # <<>>
    /\ LastEvent.op = "notify"
    /\ Len(delivered) = 3
    /\ delivered[1].listener = "john"
    /\ delivered[2].listener = "jane"
    /\ delivered[3].listener = "john"

\* the last subscribe or unsubscribe call of listener r was an unsubscribe
UnsubscribedLast(ev, r) ==
    \E i \in 1..Len(ev) :
        /\ ev[i] = [op |-> "unsubscribe", listener |-> r]
        /\ \A j \in (i + 1)..Len(ev) : ev[j].listener # r

WithoutListener(ls, r) == SelectSeq(ls, LAMBDA l : l # r)

\* C15: after unsubscribe(l), l receives no update from a later notify until
\* it subscribes again, however many times it had been subscribed; the other
\* listeners stay subscribed in their order.
UnsubscribeSilences ==
    /\ [](\A r \in Readers :
             UnsubscribedLast(events, r)
                 => \A i \in 1..Len(listeners) : listeners[i] # r)
    /\ [][/\ \A r \in Readers :
                (UnsubscribedLast(events, r) /\ articleCount' # articleCount)
                    => received'[r] = received[r]
          /\ \A r \in Readers :
                (Len(events') > Len(events)
                    /\ events'[Len(events')]
                           = [op |-> "unsubscribe", listener |-> r])
                    => WithoutListener(listeners', r)
                           = WithoutListener(listeners, r)]_vars

UnsubscribeSilencesWitness ==
    /\ Len(events) = 4
    /\ events[1] = [op |-> "subscribe", listener |-> "jane"]
    /\ events[2] = [op |-> "subscribe", listener |-> "jane"]
    /\ events[3] = [op |-> "unsubscribe", listener |-> "jane"]
    /\ events[4].op = "notify"
    /\ received["jane"] = <<>>

(***************************************************************************)
(* C16, C17: the Notifier template method                                  *)
(***************************************************************************)

\* C16: notify(user, address) throws an Error when user or address is the
\* empty string, and then neither prepare nor send is called.
NotifyRejectsMissing ==
    (notifyPc \notin {"idle", "check"}
        /\ (notifyUser = "" \/ notifyAddress = ""))
        => /\ notifyPc = "thrown"
           /\ notifyResult = "Error"
           /\ notifyCalls = <<>>

NotifyRejectsMissingWitness ==
    /\ notifyPc = "thrown"
    /\ notifyUser = "Alice"
    /\ notifyAddress = ""
    /\ notifyResult = "Error"

\* C17: for non-empty user and address, notify calls prepare(user) once,
\* then send once with the content prepare returned and the given address,
\* and returns true; send never runs before prepare, on an EmailNotifier
\* and on an SMSNotifier alike.
NotifyPreparesThenSends ==
    /\ \A i \in 1..Len(notifyCalls) :
          notifyCalls[i].fn = "send"
              => \E j \in 1..(i - 1) : notifyCalls[j].fn = "prepare"
    /\ notifyResult = "true" <=> notifyPc = "returned"
    /\ notifyPc = "returned"
          => /\ notifyUser # "" /\ notifyAddress # ""
             /\ Len(notifyCalls) = 2
             /\ notifyCalls[1].fn = "prepare"
             /\ notifyCalls[1].user = notifyUser
             /\ notifyCalls[2].fn = "send"
             /\ notifyCalls[2].on = notifier
             /\ notifyCalls[2].content = notifyCalls[1].content
             /\ notifyCalls[2].address = notifyAddress

NotifyPreparesThenSendsWitness ==
    /\ notifyPc = "returned"
    /\ notifier = "SMSNotifier"
    /\ notifyUser = "Bob"
    /\ notifyAddress = "+1234567890"
    /\ notifyCount = 2
    /\ notifyResult = "true"

(***************************************************************************)
(* C18: the pizza builder                                                  *)
(***************************************************************************)

\* the index of the last reset or bake call among the first n calls, 0 when
\* there is none
LastStart(calls, n) ==
    LET starts == {i \in 1..n : calls[i].op \in {"reset", "bake"}}
    IN  IF starts = {} THEN 0
        ELSE CHOOSE i \in starts : \A j \in starts : j <= i

\* the indexes of the calls of op made after the last reset or bake and
\* before call n
Since(calls, n, op) ==
    {i \in (LastStart(calls, n - 1) + 1)..(n - 1) : calls[i].op = op}

\* the argument of the last call of op since then, or the default
LastArg(calls, n, op, default) ==
    LET made == Since(calls, n, op)
    IN  IF made = {} THEN default
        ELSE calls[CHOOSE i \in made : \A j \in made : j <= i].arg

LastCallIsBake ==
    builderCalls # <<>> /\ builderCalls[Len(builderCalls)].op = "bake"

\* C18: bake returns a Pizza with the last size set since the last reset or
\* bake (0 if none) and the olives, cheese, pepperoni, onions and stuffed
\* crust set since then, and leaves the builder reset, so that a bake with
\* no new setting returns the default pizza.
BakeReturnsWhatWasSet ==
    LastCallIsBake
        => LET n == Len(builderCalls)
           IN  /\ bakedPizza.size = LastArg(builderCalls, n, "setSize", 0)
               /\ bakedPizza.olivesAmount
                      = LastArg(builderCalls, n, "setOlivesAmount", 0)
               /\ bakedPizza.hasCheese
                      = (Since(builderCalls, n, "addCheese") # {})
               /\ bakedPizza.cheeseType
                      = (IF Since(builderCalls, n, "addCheese") # {}
                         THEN "mozzarella" ELSE "undefined")
               /\ bakedPizza.hasPepperoni
                      = (Since(builderCalls, n, "addPepperoni") # {})
               /\ bakedPizza.hasOnions
                      = (Since(builderCalls, n, "addOnions") # {})
               /\ bakedPizza.stuffedCrust
                      = LastArg(builderCalls, n, "setStuffedCrust",
                                "undefined")
               /\ builder.pizzaSize = 0
               /\ builder.pizza.olivesAmount = 0
               /\ ~builder.pizza.hasCheese
               /\ ~builder.pizza.hasPepperoni
               /\ ~builder.pizza.hasOnions
               /\ builder.pizza.stuffedCrust = "undefined"

BakeReturnsWhatWasSetWitness ==
    /\ Len(builderCalls) = 4
    /\ builderCalls[1] = [op |-> "setSize", arg |-> 30]
    /\ builderCalls[2].op = "addCheese"
    /\ builderCalls[3].op = "bake"
    /\ builderCalls[4].op = "bake"
    /\ bakedPizza.size = 0
    /\ ~bakedPizza.hasCheese

(***************************************************************************)
(* C19: the size of a folder                                               *)
(***************************************************************************)

\* the sum of f[x] over the elements x of S
RECURSIVE SumOver(_, _)
SumOver(f, S) ==
    IF S = {}
    THEN 0
    ELSE LET x == CHOOSE y \in S : TRUE
         IN  f[x] + SumOver(f, S \ {x})

\* the number of ways down from component a to component b, entry by entry
\* of the children arrays, in a structure without a cycle
RECURSIVE Ways(_, _, _)
Ways(ch, a, b) ==
    IF a = b
    THEN 1
    ELSE IF a \in Files
         THEN 0
         ELSE SumOver([i \in 1..Len(ch[a]) |-> Ways(ch, ch[a][i], b)],
                      1..Len(ch[a]))

\* the sizes of the files, each counted once for every way down to it
SizeBelow(ch, c) ==
    SumOver([f \in Files |-> FileSize[f] * Ways(ch, c, f)], Files)

\* C19: after any sequence of addComponent calls that builds a structure
\* without a cycle, getSize of a folder is the sum of getSize of its
\* children, recursively: every file counts with its size once for each
\* place it has below the folder, an empty folder counts 0, and components
\* added to a nested folder after it was attached count as well.
\* Stated of every getSize call, against the structure the call ran on.
FolderSizeIsSumOfChildren ==
    [][(sizeCall' # sizeCall
           /\ ~Overflows(childrenComponents', sizeCall'.component))
          => /\ ~sizeCall'.threw
             /\ sizeCall'.size
                    = SizeBelow(childrenComponents', sizeCall'.component)
             /\ sizeCall'.component \in Folders
                   => sizeCall'.size
                          = SumOver(
                                [i \in 1..Len(childrenComponents'[
                                                  sizeCall'.component]) |->
                                    SizeBelow(childrenComponents',
                                              childrenComponents'[
                                                  sizeCall'.component][i])],
                                1..Len(childrenComponents'[
                                           sizeCall'.component]))]_vars

FolderSizeIsSumOfChildrenWitness ==
    /\ added = <<[folder |-> "MyFolder", component |-> "file1.txt"],
                 [folder |-> "MyFolder", component |-> "MySubFolder"],
                 [folder |-> "MySubFolder", component |-> "file3.txt"]>>
    /\ sizeCall = [component |-> "MyFolder", threw |-> FALSE, size |-> 400]

====
